---- MODULE Spec2Model ----
(***************************************************************************)
(* Model of extract_files.py: a batch extractor that walks a source file   *)
(* or directory, picks an extractor from each file's extension, extracts   *)
(* into one destination directory and records the paths that failed.       *)
(*                                                                         *)
(* Two specifications share the definitions below.                         *)
(*   Spec   the pipeline: main / extract_all_files_in_directory over a     *)
(*          tree of files, each file extracted in one step.                *)
(*   SpecH  one file handed to extract_compressed_file twice in a row,     *)
(*          the extractor taken statement by statement, with the archive   *)
(*          and file handles it holds.                                     *)
(*                                                                         *)
(* The destination is a small file system: dirs is the set of existing     *)
(* directories (a path is a sequence of components, <<>> is the            *)
(* destination itself) and files maps each existing regular file to its    *)
(* content.                                                                *)
(***************************************************************************)
EXTENDS Naturals, Sequences, FiniteSets, TLC

VARIABLES entry, srcKind, tree, idx, pc, dirs, files, fail_list, console,
          attempted, last, expect, hname, arch, ei, handles, pass, start0, snap

vars == <<entry, srcKind, tree, idx, pc, dirs, files, fail_list, console,
          attempted, last, expect, hname, arch, ei, handles, pass, start0, snap>>

pipeVars == <<entry, srcKind, tree, idx, attempted, last, expect>>
handleVars == <<hname, arch, ei, handles, pass, start0, snap>>

\* ---------------------------------------------------------------- bounds
MaxFiles == 2
MaxEntries == 2

\* ---------------------------------------------------------------- inputs
None == "None"

\* File names, as sequences of characters.
NameZip == <<"a", ".", "z", "i", "p">>
NameZipUpper == <<"A", ".", "Z", "I", "P">>
Name7z == <<"b", ".", "7", "z">>
NameRar == <<"c", ".", "r", "a", "r">>
NameTarGz == <<"d", ".", "t", "a", "r", ".", "g", "z">>
NameNoExt == <<"e">>

ArchiveNames == {NameZip, NameZipUpper, Name7z, NameRar}
Names == ArchiveNames \cup {NameTarGz, NameNoExt}

\* Archive members.  bad: "no", "open" (the entry's stream cannot be opened:
\* bad local header, encrypted entry), "copy" (the read fails midway: CRC).
Fa == [path |-> <<"a">>, isdir |-> FALSE, bad |-> "no", data |-> "hello"]
FaCrc == [path |-> <<"a">>, isdir |-> FALSE, bad |-> "copy", data |-> "hello"]
Fsa == [path |-> <<"sub", "a">>, isdir |-> FALSE, bad |-> "no", data |-> "world"]
FsaHdr == [path |-> <<"sub", "a">>, isdir |-> FALSE, bad |-> "open", data |-> "world"]
Ds == [path |-> <<"sub">>, isdir |-> TRUE, bad |-> "no", data |-> ""]
Da == [path |-> <<"a">>, isdir |-> TRUE, bad |-> "no", data |-> ""]

Entries == {Fa, FaCrc, Fsa, FsaHdr, Ds, Da}

\* The members the archives of a walked tree are made of.
WalkEntries == {Fa, FaCrc, Fsa, Ds}

\* A file that no archive reader can open (corrupt, or not an archive at all).
Unreadable == [readable |-> FALSE, entries |-> <<>>]

ArchivesOf(E) ==
    {Unreadable} \cup
    {[readable |-> TRUE, entries |-> s] : s \in UNION {[1..k -> E] : k \in 0..MaxEntries}}

AllArchives == ArchivesOf(Entries)

WalkArchives == ArchivesOf(WalkEntries)

\* The possible contents of a file of the walked tree, and of the one file
\* of SpecH.
ContentsOf(name) == IF name \in ArchiveNames THEN WalkArchives ELSE {Unreadable}

ContentsH(name) == IF name \in ArchiveNames THEN AllArchives ELSE {Unreadable}

NoFiles == [p \in {} |-> ""]

\* What a truncated copy leaves in the target file.
Truncated == "trunc"

\* ---------------------------------------------------------------- pathlib
RECURSIVE RFind(_, _)
RFind(name, j) ==
    IF j = 0 THEN 0
    ELSE IF name[j] = "." THEN j ELSE RFind(name, j - 1)

\* Path(compressed_file).suffix
Suffix(name) ==
    LET j == RFind(name, Len(name))
    IN IF 1 < j /\ j < Len(name) THEN SubSeq(name, j, Len(name)) ELSE <<>>

DotZip == <<".", "z", "i", "p">>
Dot7z == <<".", "7", "z">>
DotRar == <<".", "r", "a", "r">>

\* extractors.get(file_extension)
Extractors(ext) ==
    IF ext = DotZip THEN "zip"
    ELSE IF ext = Dot7z THEN "7z"
    ELSE IF ext = DotRar THEN "rar"
    ELSE "none"

\* ---------------------------------------------------------------- file system
Parent(p) == SubSeq(p, 1, Len(p) - 1)

Prefixes(p) == {SubSeq(p, 1, k) : k \in 0..Len(p)}

\* os.makedirs without exist_ok: an existing directory is an error too.
MakedirsErrorNoExistOk(d, f, p) ==
    IF p \in DOMAIN f \/ p \in d THEN "FileExistsError"
    ELSE IF \E q \in Prefixes(p) : q \in DOMAIN f THEN "NotADirectoryError"
    ELSE ""

\* os.makedirs(subdir_path, exist_ok=True): "" when it succeeds, else the
\* exception.  An existing directory is accepted, a regular file in the way
\* is not.
MakedirsError(d, f, p) ==
    IF p \in DOMAIN f THEN "FileExistsError"
    ELSE IF \E q \in Prefixes(p) : q \in DOMAIN f THEN "NotADirectoryError"
    ELSE ""

Makedirs(d, p) == d \cup Prefixes(p)

\* open(os.path.join(output_dir, filename), "w+b"): "" when it succeeds, else
\* the exception.  The parent must exist as a directory; nothing creates it.
OpenError(d, f, p) ==
    IF p \in d THEN "IsADirectoryError"
    ELSE IF Parent(p) \in d THEN ""
    ELSE IF \E q \in Prefixes(p) : q \in DOMAIN f THEN "NotADirectoryError"
    ELSE "FileNotFoundError"

Write(f, p, c) == (p :> c) @@ f

\* ---------------------------------------------------------------- console
Line(kind, file, info) == [kind |-> kind, file |-> file, info |-> info]

\* ---------------------------------------------------------------- extractors
\* The state an extraction works on:
\*   [dirs, files, fail_list, console, invoked, raised]
\* invoked is the extractor that ran ("none" when none did); raised tells
\* whether an exception left the call.

\* handle_extraction_error that prints and forgets to record the file.
HandleExtractionErrorNoAppend(st, file, exception) ==
    [st EXCEPT !.console = Append(@, Line("error", file, exception))]

\* handle_extraction_error that records the file and lets the exception go on.
HandleExtractionErrorReraise(st, file, exception) ==
    [st EXCEPT !.console = Append(@, Line("error", file, exception)),
               !.fail_list = Append(@, file),
               !.raised = TRUE]

\* handle_extraction_error: print the diagnostic, append the file.
HandleExtractionError(st, file, exception) ==
    [st EXCEPT !.console = Append(@, Line("error", file, exception)),
               !.fail_list = Append(@, file)]

\* One iteration of the loop of extract_zip over infolist(); r is
\* [dirs, files, err], err = "" while no exception was raised.
ZipEntry(r, e) ==
    IF e.isdir
    THEN LET x == MakedirsError(r.dirs, r.files, e.path)
         IN IF x # "" THEN [r EXCEPT !.err = x]
            ELSE [r EXCEPT !.dirs = Makedirs(@, e.path)]
    ELSE IF e.bad = "open" THEN [r EXCEPT !.err = "BadZipFile"]
    ELSE LET x == OpenError(r.dirs, r.files, e.path)
         IN IF x # "" THEN [r EXCEPT !.err = x]
            ELSE IF e.bad = "copy"
            THEN [r EXCEPT !.files = Write(@, e.path, Truncated), !.err = "BadZipFile"]
            ELSE [r EXCEPT !.files = Write(@, e.path, e.data)]

RECURSIVE ZipLoop(_, _, _)
ZipLoop(r, es, k) ==
    IF k > Len(es) \/ r.err # "" THEN r
    ELSE ZipLoop(ZipEntry(r, es[k]), es, k + 1)

\* The try body of extract_zip.
ZipBody(a, d, f) ==
    IF ~a.readable THEN [dirs |-> d, files |-> f, err |-> "BadZipFile"]
    ELSE ZipLoop([dirs |-> d, files |-> f, err |-> ""], a.entries, 1)

\* extract_zip
ExtractZip(st, file, a) ==
    LET r == ZipBody(a, st.dirs, st.files)
        w == [st EXCEPT !.dirs = r.dirs, !.files = r.files, !.invoked = "zip"]
    IN IF r.err = ""
       THEN [w EXCEPT !.console = Append(@, Line("success", file, ""))]
       ELSE HandleExtractionError(w, file, r.err)

\* What the archive libraries do with one member when they extract a whole
\* archive (py7zr's extractall, the tool patool runs): as the loop of
\* extract_zip, except that a file's parent directories are created first.
LibEntry(r, e) ==
    IF e.isdir
    THEN LET x == MakedirsError(r.dirs, r.files, e.path)
         IN IF x # "" THEN [r EXCEPT !.err = x]
            ELSE [r EXCEPT !.dirs = Makedirs(@, e.path)]
    ELSE IF e.bad = "open" THEN [r EXCEPT !.err = "ArchiveError"]
    ELSE LET x == MakedirsError(r.dirs, r.files, Parent(e.path))
         IN IF x # "" THEN [r EXCEPT !.err = x]
            ELSE LET d2 == Makedirs(r.dirs, Parent(e.path))
                     y == OpenError(d2, r.files, e.path)
                 IN IF y # "" THEN [r EXCEPT !.dirs = d2, !.err = y]
                    ELSE IF e.bad = "copy"
                    THEN [r EXCEPT !.dirs = d2, !.files = Write(@, e.path, Truncated),
                                   !.err = "ArchiveError"]
                    ELSE [r EXCEPT !.dirs = d2, !.files = Write(@, e.path, e.data)]

RECURSIVE LibLoop(_, _, _)
LibLoop(r, es, k) ==
    IF k > Len(es) \/ r.err # "" THEN r
    ELSE LibLoop(LibEntry(r, es[k]), es, k + 1)

\* archive.extractall(output_dir) / patoolib.extract_archive(..., outdir=...):
\* the output directory is created when missing.
LibExtractAll(a, d, f) ==
    IF ~a.readable THEN [dirs |-> d, files |-> f, err |-> "ArchiveError"]
    ELSE LibLoop([dirs |-> Makedirs(d, <<>>), files |-> f, err |-> ""], a.entries, 1)

\* extract_7z
Extract7z(st, file, a) ==
    LET r == LibExtractAll(a, st.dirs, st.files)
        w == [st EXCEPT !.dirs = r.dirs, !.files = r.files, !.invoked = "7z"]
    IN IF r.err = ""
       THEN [w EXCEPT !.console = Append(@, Line("success", file, ""))]
       ELSE HandleExtractionError(w, file, r.err)

\* extract_rar: no line is printed when the extraction succeeds.
ExtractRar(st, file, a) ==
    LET r == LibExtractAll(a, st.dirs, st.files)
        w == [st EXCEPT !.dirs = r.dirs, !.files = r.files, !.invoked = "rar"]
    IN IF r.err = "" THEN w ELSE HandleExtractionError(w, file, r.err)

\* The else branch without the append.
UnsupportedFormatNoAppend(st, file, ext) ==
    [st EXCEPT !.console = Append(@, Line("unsupported", file, ext))]

\* The else branch of extract_compressed_file.
UnsupportedFormat(st, file, ext) ==
    [st EXCEPT !.console = Append(@, Line("unsupported", file, ext)),
               !.fail_list = Append(@, file)]

\* extract_compressed_file
ExtractCompressedFile(st, file, a) ==
    LET file_extension == Suffix(file.name)
        extractor == Extractors(file_extension)
    IN IF extractor = "zip" THEN ExtractZip(st, file, a)
       ELSE IF extractor = "7z" THEN Extract7z(st, file, a)
       ELSE IF extractor = "rar" THEN ExtractRar(st, file, a)
       ELSE UnsupportedFormat(st, file, file_extension)

\* os.path.join(root, file): the k-th file of the walk, in its own directory.
FullPath(k, name) == [dir |-> k, name |-> name]

\* ---------------------------------------------------------------- pipeline
Members(a) == {[path |-> a.entries[k].path, isdir |-> a.entries[k].isdir] :
               k \in 1..Len(a.entries)}

\* The member m exists under the destination.
Exists(d, f, m) == IF m.isdir THEN m.path \in d ELSE m.path \in DOMAIN f

InFailList(fl, file) == \E k \in 1..Len(fl) : fl[k] = file

\* The value of last before any file was attempted.
NoLast == [file |-> FullPath(0, <<>>), invoked |-> "none", members |-> {}]

Trees(n) == UNION {[1..k -> Names] : k \in 0..n}

InitPipe ==
    /\ entry \in {"main", "call"}
    /\ srcKind \in {"dir", "file", "none"}
    /\ tree \in Trees(MaxFiles)
    /\ srcKind = "file" => Len(tree) = 1
    /\ srcKind = "none" => tree = <<>>
    /\ idx = 0
    /\ pc = "start"
    /\ dirs \in {{}, {<<>>}}
    /\ files = NoFiles
    /\ fail_list = <<>>
    /\ console = <<>>
    /\ attempted = <<>>
    /\ last = NoLast
    /\ expect = {}

IdleHandles ==
    /\ hname = None
    /\ arch = None
    /\ ei = 0
    /\ handles = {}
    /\ pass = 0
    /\ start0 = None
    /\ snap = None

Init == InitPipe /\ IdleHandles

\* main: add_argument("source", ..., required=True) raises TypeError, since
\* argparse rejects required for a positional; nothing after it runs.
ParseArgs ==
    /\ pc = "start"
    /\ entry = "main"
    /\ pc' = "crashed"
    /\ console' = Append(console, Line("traceback", None, "TypeError"))
    /\ UNCHANGED <<entry, srcKind, tree, idx, dirs, files, fail_list,
                   attempted, last, expect>>
    /\ UNCHANGED handleVars

\* One call extract_compressed_file(full_path, output_dir, fail_list) on the
\* k-th file of the tree, whose content is a; then control goes to next_pc.
Attempt(k, a, next_pc) ==
    LET file == FullPath(k, tree[k])
        st == [dirs |-> dirs, files |-> files, fail_list |-> fail_list,
               console |-> console, invoked |-> "none", raised |-> FALSE]
    IN \E r \in {ExtractCompressedFile(st, file, a)} :
       /\ dirs' = r.dirs
       /\ files' = r.files
       /\ fail_list' = r.fail_list
       /\ console' = r.console
       /\ pc' = IF r.raised THEN "crashed" ELSE next_pc
       /\ idx' = k
       /\ attempted' = Append(attempted, file)
       /\ last' = [file |-> file, invoked |-> r.invoked, members |-> Members(a)]
       /\ expect' = IF InFailList(r.fail_list, file) THEN expect
                    ELSE expect \cup Members(a)
       /\ UNCHANGED <<entry, srcKind, tree>>
       /\ UNCHANGED handleVars

\* extract_all_files_in_directory, os.path.isdir(path): start the walk.
WalkDir ==
    /\ pc = "start"
    /\ entry = "call"
    /\ srcKind = "dir"
    /\ pc' = "walk"
    /\ UNCHANGED <<entry, srcKind, tree, idx, dirs, files, fail_list, console,
                   attempted, last, expect>>
    /\ UNCHANGED handleVars

\* The body of the loops over os.walk(path).
WalkStep ==
    /\ pc = "walk"
    /\ idx < Len(tree)
    /\ \E a \in ContentsOf(tree[idx + 1]) : Attempt(idx + 1, a, "walk")

\* The walk is exhausted.
WalkEnd ==
    /\ pc = "walk"
    /\ idx = Len(tree)
    /\ pc' = "done"
    /\ UNCHANGED <<entry, srcKind, tree, idx, dirs, files, fail_list, console,
                   attempted, last, expect>>
    /\ UNCHANGED handleVars

\* extract_all_files_in_directory, os.path.isfile(path).
SingleFile ==
    /\ pc = "start"
    /\ entry = "call"
    /\ srcKind = "file"
    /\ \E a \in ContentsOf(tree[1]) : Attempt(1, a, "done")

\* The else branch, recording the source as a failed archive.
NotAValidPathRecorded(st) ==
    [st EXCEPT !.console = Append(@, Line("invalid", None, "")),
               !.fail_list = Append(@, None)]

\* What the else branch of extract_all_files_in_directory does to
\* [fail_list, console].
NotAValidPath(st) ==
    [st EXCEPT !.console = Append(@, Line("invalid", None, ""))]

InvalidPath ==
    /\ pc = "start"
    /\ entry = "call"
    /\ srcKind = "none"
    /\ LET r == NotAValidPath([fail_list |-> fail_list, console |-> console])
       IN /\ fail_list' = r.fail_list
          /\ console' = r.console
    /\ pc' = "done"
    /\ UNCHANGED <<entry, srcKind, tree, idx, dirs, files, attempted, last, expect>>
    /\ UNCHANGED handleVars

Next == ParseArgs \/ WalkDir \/ WalkStep \/ WalkEnd \/ SingleFile \/ InvalidPath

Spec == Init /\ [][Next]_vars

TypeOK ==
    /\ pc \in {"start", "walk", "done", "crashed"}
    /\ idx \in 0..Len(tree)
    /\ Len(attempted) = idx

\* ---------------------------------------------------------------- SpecH
\* One file, extract_compressed_file called on it twice in a row, the
\* extractors taken statement by statement.

\* The entry's stream is closed only by the block of an opened target.
ExitEntryLeak(h) == IF "tgt" \in h THEN h \ {"src", "tgt"} ELSE h

\* Leaving "with file_ref.open(file_info) as source, open(...) as target":
\* both are closed, whichever of them were opened.
ExitEntry(h) == h \ {"src", "tgt"}

\* Leaving "with zipfile.ZipFile(input_file, "r") as file_ref".
ExitZip(h) == h \ {"zip"}

\* Leaving "with py7zr.SevenZipFile(input_file, mode="r") as archive".
Exit7z(h) == h \ {"7z"}

DestMissing == [dirs |-> {}, files |-> NoFiles]
DestEmpty == [dirs |-> {<<>>}, files |-> NoFiles]
DestWithSub == [dirs |-> {<<>>, <<"sub">>}, files |-> NoFiles]
DestWithFileA == [dirs |-> {<<>>}, files |-> (<<"a">> :> "old")]

InitialDests == {DestMissing, DestEmpty, DestWithSub, DestWithFileA}

HFile == FullPath(1, hname)

InitH ==
    /\ hname \in Names
    /\ arch \in ContentsH(hname)
    /\ start0 \in InitialDests
    /\ dirs = start0.dirs
    /\ files = start0.files
    /\ fail_list = <<>>
    /\ console = <<>>
    /\ pc = "call"
    /\ pass = 1
    /\ ei = 0
    /\ handles = {}
    /\ snap = None
    /\ entry = "call"
    /\ srcKind = "file"
    /\ tree = <<hname>>
    /\ idx = 0
    /\ attempted = <<>>
    /\ last = NoLast
    /\ expect = {}

HState == [dirs |-> dirs, files |-> files, fail_list |-> fail_list,
           console |-> console, invoked |-> "none", raised |-> FALSE]

\* The except clause of an extractor: the exception was raised with the
\* handles h still open and the file system as (d, f).
Except(d, f, h, exception) ==
    \E r \in {HandleExtractionError(HState, HFile, exception)} :
       /\ fail_list' = r.fail_list
       /\ console' = r.console
       /\ dirs' = d
       /\ files' = f
       /\ handles' = h
       /\ pc' = IF r.raised THEN "crashed" ELSE "ret"
       /\ UNCHANGED <<hname, arch, ei, pass, start0, snap>>
       /\ UNCHANGED pipeVars

\* print(f"Successfully extracted file {input_file}") and return.
Succeed(h) ==
    /\ console' = Append(console, Line("success", HFile, ""))
    /\ handles' = h
    /\ pc' = "ret"
    /\ UNCHANGED <<dirs, files, fail_list, hname, arch, ei, pass, start0, snap>>
    /\ UNCHANGED pipeVars

\* extract_compressed_file up to the call of the extractor.
HDispatch ==
    /\ pc = "call"
    /\ LET file_extension == Suffix(hname)
           extractor == Extractors(file_extension)
       IN IF extractor = "none"
          THEN \E r \in {UnsupportedFormat(HState, HFile, file_extension)} :
                  /\ fail_list' = r.fail_list
                  /\ console' = r.console
                  /\ pc' = "ret"
          ELSE /\ pc' = IF extractor = "zip" THEN "zip_open"
                        ELSE IF extractor = "7z" THEN "7z_open" ELSE "rar"
               /\ UNCHANGED <<fail_list, console>>
    /\ UNCHANGED <<dirs, files, hname, arch, ei, handles, pass, start0, snap>>
    /\ UNCHANGED pipeVars

\* zipfile.ZipFile(input_file, "r")
ZipOpen ==
    /\ pc = "zip_open"
    /\ IF ~arch.readable
       THEN Except(dirs, files, handles, "BadZipFile")
       ELSE /\ handles' = handles \cup {"zip"}
            /\ ei' = 1
            /\ pc' = "zip_loop"
            /\ UNCHANGED <<dirs, files, fail_list, console, hname, arch, pass,
                           start0, snap>>
            /\ UNCHANGED pipeVars

\* infolist() is exhausted: leave the with block, print, return.
ZipDone ==
    /\ pc = "zip_loop"
    /\ ei > Len(arch.entries)
    /\ Succeed(ExitZip(handles))

\* A directory entry: os.makedirs(subdir_path, exist_ok=True).
ZipDir ==
    /\ pc = "zip_loop"
    /\ ei <= Len(arch.entries)
    /\ arch.entries[ei].isdir
    /\ LET e == arch.entries[ei]
           x == MakedirsError(dirs, files, e.path)
       IN IF x # ""
          THEN Except(dirs, files, ExitZip(handles), x)
          ELSE /\ dirs' = Makedirs(dirs, e.path)
               /\ ei' = ei + 1
               /\ UNCHANGED <<pc, files, fail_list, console, handles, hname, arch,
                              pass, start0, snap>>
               /\ UNCHANGED pipeVars

\* A file entry: file_ref.open(file_info).
ZipOpenSource ==
    /\ pc = "zip_loop"
    /\ ei <= Len(arch.entries)
    /\ ~arch.entries[ei].isdir
    /\ IF arch.entries[ei].bad = "open"
       THEN Except(dirs, files, ExitZip(handles), "BadZipFile")
       ELSE /\ handles' = handles \cup {"src"}
            /\ pc' = "zip_tgt"
            /\ UNCHANGED <<dirs, files, fail_list, console, hname, arch, ei, pass,
                           start0, snap>>
            /\ UNCHANGED pipeVars

\* open(os.path.join(output_dir, file_info.filename), "w+b"): the file is
\* created, or emptied when it exists.
ZipOpenTarget ==
    /\ pc = "zip_tgt"
    /\ LET e == arch.entries[ei]
           x == OpenError(dirs, files, e.path)
       IN IF x # ""
          THEN Except(dirs, files, ExitZip(ExitEntry(handles)), x)
          ELSE /\ files' = Write(files, e.path, "")
               /\ handles' = handles \cup {"tgt"}
               /\ pc' = "zip_copy"
               /\ UNCHANGED <<dirs, fail_list, console, hname, arch, ei, pass,
                              start0, snap>>
               /\ UNCHANGED pipeVars

\* shutil.copyfileobj(source, target), then the inner with block is left.
ZipCopy ==
    /\ pc = "zip_copy"
    /\ LET e == arch.entries[ei]
       IN IF e.bad = "copy"
          THEN Except(dirs, Write(files, e.path, Truncated),
                      ExitZip(ExitEntry(handles)), "BadZipFile")
          ELSE /\ files' = Write(files, e.path, e.data)
               /\ handles' = ExitEntry(handles)
               /\ ei' = ei + 1
               /\ pc' = "zip_loop"
               /\ UNCHANGED <<dirs, fail_list, console, hname, arch, pass,
                              start0, snap>>
               /\ UNCHANGED pipeVars

\* py7zr.SevenZipFile(input_file, mode="r")
SevenOpen ==
    /\ pc = "7z_open"
    /\ IF ~arch.readable
       THEN Except(dirs, files, handles, "ArchiveError")
       ELSE /\ handles' = handles \cup {"7z"}
            /\ pc' = "7z_extract"
            /\ UNCHANGED <<dirs, files, fail_list, console, hname, arch, ei, pass,
                           start0, snap>>
            /\ UNCHANGED pipeVars

\* archive.extractall(output_dir), then the with block is left.
SevenExtractAll ==
    /\ pc = "7z_extract"
    /\ \E r \in {LibExtractAll(arch, dirs, files)} :
          IF r.err # ""
          THEN Except(r.dirs, r.files, Exit7z(handles), r.err)
          ELSE /\ dirs' = r.dirs
               /\ files' = r.files
               /\ console' = Append(console, Line("success", HFile, ""))
               /\ handles' = Exit7z(handles)
               /\ pc' = "ret"
               /\ UNCHANGED <<fail_list, hname, arch, ei, pass, start0, snap>>
               /\ UNCHANGED pipeVars

\* extract_rar: patoolib.extract_archive(input_file, outdir=output_dir).
RarExtract ==
    /\ pc = "rar"
    /\ \E r \in {LibExtractAll(arch, dirs, files)} :
          IF r.err # ""
          THEN Except(r.dirs, r.files, handles, r.err)
          ELSE /\ dirs' = r.dirs
               /\ files' = r.files
               /\ pc' = "ret"
               /\ UNCHANGED <<fail_list, console, handles, hname, arch, ei, pass,
                              start0, snap>>
               /\ UNCHANGED pipeVars

\* The first call has returned: the caller makes the same call again.
CallAgain ==
    /\ pc = "ret"
    /\ pass = 1
    /\ snap' = [dirs |-> dirs, files |-> files, nfail |-> Len(fail_list)]
    /\ pass' = 2
    /\ ei' = 0
    /\ pc' = "call"
    /\ UNCHANGED <<dirs, files, fail_list, console, handles, hname, arch, start0>>
    /\ UNCHANGED pipeVars

\* The second call has returned.
Finish ==
    /\ pc = "ret"
    /\ pass = 2
    /\ pc' = "end"
    /\ UNCHANGED <<dirs, files, fail_list, console, handles, hname, arch, ei,
                   pass, start0, snap>>
    /\ UNCHANGED pipeVars

NextH ==
    \/ HDispatch \/ ZipOpen \/ ZipDone \/ ZipDir \/ ZipOpenSource
    \/ ZipOpenTarget \/ ZipCopy \/ SevenOpen \/ SevenExtractAll \/ RarExtract
    \/ CallAgain \/ Finish

SpecH == InitH /\ [][NextH]_vars

\* The statement-by-statement extraction of SpecH ends where the one-step
\* extraction of Spec does.
StepwiseAgrees ==
    (pc = "ret" /\ pass = 1) =>
        LET st == [dirs |-> start0.dirs, files |-> start0.files, fail_list |-> <<>>,
                   console |-> <<>>, invoked |-> "none", raised |-> FALSE]
            r == ExtractCompressedFile(st, HFile, arch)
        IN /\ dirs = r.dirs
           /\ files = r.files
           /\ fail_list = r.fail_list
           /\ console = r.console

\* ---------------------------------------------------------------- claims
AllExist(ms) == \A m \in ms : Exists(dirs, files, m)

SupportedSuffixes == {DotZip, Dot7z, DotRar}

LowerChar(c) ==
    CASE c = "A" -> "a" [] c = "I" -> "i" [] c = "P" -> "p" [] c = "Z" -> "z"
      [] OTHER -> c

Lower(w) == [k \in 1..Len(w) |-> LowerChar(w[k])]

\* C1 as stated, for a candidate that extract_zip or no extractor handled:
\* when the run has finished, the candidate is in exactly one of the two
\* states "all its members exist under the destination" and "its path is in
\* fail_list": not in both, not in neither.
C1_ExactlyOne ==
    (pc = "done" /\ attempted # <<>> /\ last.invoked \in {"zip", "none"}) =>
        LET failed == InFailList(fail_list, last.file)
            extracted == AllExist(last.members)
        IN /\ failed \/ extracted
           /\ ~(failed /\ extracted /\ last.members # {})

\* C1 amended: every candidate handed to extract_compressed_file is in at
\* least one of the two states (never in neither): a candidate whose path is
\* not in fail_list has all its members under the destination, then and for
\* the rest of the run; and fail_list holds only attempted candidates, each
\* at most once.  A candidate recorded as failed may have members written.
C1_NeverNeither ==
    /\ attempted # <<>> => (InFailList(fail_list, last.file) \/ AllExist(last.members))
    /\ AllExist(expect)
    /\ \A j, k \in 1..Len(fail_list) : fail_list[j] = fail_list[k] => j = k
    /\ \A j \in 1..Len(fail_list) : InFailList(attempted, fail_list[j])

\* A ZIP that failed part-way: recorded as failed, one member written,
\* another missing.
C1_Witness ==
    /\ pc = "done"
    /\ attempted # <<>>
    /\ last.invoked = "zip"
    /\ InFailList(fail_list, last.file)
    /\ \E m \in last.members : Exists(dirs, files, m)
    /\ \E m \in last.members : ~Exists(dirs, files, m)

\* C2: over a directory every file of the traversal is handed to
\* extract_compressed_file exactly once, in order, whatever happened to the
\* files before it; no failure leaves the loop.
C2_AllAttempted ==
    /\ entry = "call" => pc # "crashed"
    /\ (pc = "done" /\ srcKind = "dir") =>
          /\ Len(attempted) = Len(tree)
          /\ \A k \in 1..Len(tree) : attempted[k] = FullPath(k, tree[k])

\* The first file of the directory failed inside an extractor and the
\* second was still extracted.
C2_Witness ==
    /\ pc = "done"
    /\ srcKind = "dir"
    /\ Len(tree) = 2
    /\ \E k \in 1..Len(console) :
          console[k].kind = "error" /\ console[k].file = attempted[1]
    /\ fail_list = <<attempted[1]>>
    /\ last.invoked # "none"

\* C3 as stated: a file whose lowercased suffix is .zip, .7z or .rar is
\* given to the matching extractor and is not reported as unsupported.
C3_CaseInsensitive ==
    (attempted # <<>> /\ Lower(Suffix(last.file.name)) \in SupportedSuffixes) =>
        /\ last.invoked = Extractors(Lower(Suffix(last.file.name)))
        /\ ~\E k \in 1..Len(console) :
               console[k].kind = "unsupported" /\ console[k].file = last.file

\* C4: for a file whose extension is none of .zip, .7z, .rar the call of
\* extract_compressed_file runs no extractor, leaves the destination as it
\* was and appends the path to fail_list once.
C4_Unsupported ==
    [][(idx' = idx + 1 /\ Suffix(tree[idx']) \notin SupportedSuffixes) =>
          /\ last'.invoked = "none"
          /\ dirs' = dirs
          /\ files' = files
          /\ fail_list' = Append(fail_list, FullPath(idx', tree[idx']))]_vars

\* A file without extension and one with an unknown extension were walked,
\* and both were recorded.
C4_Witness ==
    /\ pc = "done"
    /\ Len(tree) = 2
    /\ Suffix(tree[1]) = <<>>
    /\ Suffix(tree[2]) = <<".", "g", "z">>
    /\ fail_list = attempted
    /\ last.invoked = "none"

\* C5: for a source that is neither a file nor a directory the call prints
\* the invalid-path line and changes nothing else: fail_list stays empty,
\* the destination is untouched, nothing is attempted.
C5_InvalidSource ==
    [][(pc = "start" /\ entry = "call" /\ srcKind = "none") =>
          /\ console' = Append(console, Line("invalid", None, ""))
          /\ fail_list' = <<>>
          /\ dirs' = dirs
          /\ files' = files
          /\ attempted' = <<>>
          /\ last' = NoLast
          /\ pc' = "done"]_vars

\* The call on an invalid source has returned.
C5_Witness ==
    /\ pc = "done"
    /\ entry = "call"
    /\ srcKind = "none"
    /\ console = <<Line("invalid", None, "")>>

\* C6 as stated: a readable ZIP of sound file entries, extracted into an
\* existing empty destination, succeeds and writes every entry, the parent
\* directories being created on the way.
C6_ImplicitParents ==
    (/\ pc = "ret"
     /\ pass = 1
     /\ Extractors(Suffix(hname)) = "zip"
     /\ arch.readable
     /\ start0 = DestEmpty
     /\ \A k \in 1..Len(arch.entries) :
           ~arch.entries[k].isdir /\ arch.entries[k].bad = "no")
    => /\ fail_list = <<>>
       /\ \A k \in 1..Len(arch.entries) :
             /\ arch.entries[k].path \in DOMAIN files
             /\ files[arch.entries[k].path] = arch.entries[k].data
             /\ Parent(arch.entries[k].path) \in dirs

\* C7 as stated: a run of main that has ended has printed one of the two
\* summaries.
C7_FinalSummary ==
    (entry = "main" /\ pc \in {"done", "crashed"}) =>
        \E k \in 1..Len(console) : console[k].kind \in {"failed_listing", "completed"}

\* C8 as stated: each dispatched file has its own outcome line on the
\* console before the next file is dispatched, a success line if and only
\* if it was not recorded as failed.
C8_OneLinePerFile ==
    (entry = "call" /\ srcKind # "none" /\ pc \in {"walk", "done"}) =>
        /\ Len(console) = Len(attempted)
        /\ \A k \in 1..Len(attempted) :
              /\ console[k].file = attempted[k]
              /\ console[k].kind = "success" <=> ~InFailList(fail_list, attempted[k])

\* C9: the second of two extractions of the same archive into the same
\* destination leaves the file tree the first one left, and has the same
\* outcome.
C9_Idempotent ==
    (pass = 2 /\ pc \in {"ret", "end"}) =>
        /\ dirs = snap.dirs
        /\ files = snap.files
        /\ Len(fail_list) = 2 * snap.nfail

\* A ZIP with a directory entry and a file in it was extracted twice with
\* success, over the directory and the file of the first extraction.
C9_Witness ==
    /\ pc = "end"
    /\ Extractors(Suffix(hname)) = "zip"
    /\ arch.entries = <<Ds, Fsa>>
    /\ start0 = DestEmpty
    /\ fail_list = <<>>
    /\ Len(console) = 2
    /\ files = (<<"sub", "a">> :> "world")

\* C10: no archive or file handle is open when an extraction has returned,
\* and inside extract_zip only the handles of the enclosing with blocks are.
C10_NoLeak ==
    /\ pc \in {"call", "ret", "end", "crashed"} => handles = {}
    /\ pc = "zip_loop" => handles = {"zip"}
    /\ pc = "zip_tgt" => handles = {"zip", "src"}
    /\ pc = "zip_copy" => handles = {"zip", "src", "tgt"}
    /\ pc = "7z_extract" => handles = {"7z"}

\* extract_zip has returned after open() of a target failed with the
\* entry's stream open.
C10_Witness ==
    /\ pc = "ret"
    /\ pass = 1
    /\ Extractors(Suffix(hname)) = "zip"
    /\ arch.readable
    /\ Len(console) = 1
    /\ console[1].kind = "error"
    /\ console[1].info = "FileNotFoundError"
    /\ handles = {}

====
